---- MODULE Spec2Model ----
(***************************************************************************)
(* A model of the document-ingest pipeline (modules/loader.py), of the     *)
(* answer assembly (rag_core.py) and of the Streamlit session handlers     *)
(* (app.py) of rag-assistant.                                              *)
(*                                                                         *)
(* Text is a sequence of one-character strings, so that trimming,          *)
(* truncation, formatting and parsing are computed and not assumed.        *)
(***************************************************************************)
EXTENDS Integers, Sequences, FiniteSets, TLC

(***************************************************************************)
(* Text helpers (the Python str methods the code calls)                    *)
(***************************************************************************)

\* str.strip() with no argument strips these
Whitespace == {" ", "\n", "\t"}

RECURSIVE LStrip(_, _)
LStrip(s, cs) ==
    IF s # <<>> /\ Head(s) \in cs THEN LStrip(Tail(s), cs) ELSE s

RECURSIVE RStrip(_, _)
RStrip(s, cs) ==
    IF s # <<>> /\ s[Len(s)] \in cs
    THEN RStrip(SubSeq(s, 1, Len(s) - 1), cs)
    ELSE s

\* s.strip(cs)
Strip(s, cs) == RStrip(LStrip(s, cs), cs)

\* s[:n]
Prefix(s, n) == SubSeq(s, 1, IF n < Len(s) THEN n ELSE Len(s))

\* str.lower() on the letters that occur in the modelled paths
LowerChar(c) ==
    CASE c = "P" -> "p"
      [] c = "D" -> "d"
      [] c = "F" -> "f"
      [] c = "T" -> "t"
      [] c = "X" -> "x"
      [] OTHER -> c

Lower(s) == [k \in 1..Len(s) |-> LowerChar(s[k])]

\* the largest index of character c in s, 0 when absent (str.rfind + 1)
RECURSIVE RFind(_, _)
RFind(s, c) ==
    IF s = <<>> THEN 0
    ELSE IF s[Len(s)] = c THEN Len(s)
    ELSE RFind(SubSeq(s, 1, Len(s) - 1), c)

\* sep.join(parts)
RECURSIVE Join(_, _)
Join(parts, sep) ==
    IF parts = <<>> THEN <<>>
    ELSE IF Len(parts) = 1 THEN parts[1]
    ELSE parts[1] \o sep \o Join(Tail(parts), sep)

\* s.split(c) for a one-character separator
SplitOn(s, c) ==
    LET seps == { k \in 1..Len(s) : s[k] = c }
        starts == {1} \cup { k + 1 : k \in seps }
        StartOf(i) == CHOOSE a \in starts :
                          Cardinality({ b \in starts : b < a }) = i - 1
        EndOf(a) == CHOOSE z \in a..(Len(s) + 1) :
                        /\ z \in seps \cup {Len(s) + 1}
                        /\ \A k \in a..(z - 1) : k \notin seps
    IN  [i \in 1..Cardinality(starts) |->
            SubSeq(s, StartOf(i), EndOf(StartOf(i)) - 1)]

DigitChars == <<"0", "1", "2", "3", "4", "5", "6", "7", "8", "9">>

IsDigit(c) == \E k \in 1..10 : DigitChars[k] = c

DigitVal(c) == (CHOOSE k \in 1..10 : DigitChars[k] = c) - 1

\* str(n) for n >= 0, as the f-string f"[{i}]" formats i
RECURSIVE IntToStr(_)
IntToStr(n) ==
    IF n < 10 THEN <<DigitChars[n + 1]>>
    ELSE IntToStr(n \div 10) \o <<DigitChars[(n % 10) + 1]>>

RECURSIVE DigitsValue(_)
DigitsValue(s) ==
    IF s = <<>> THEN 0
    ELSE 10 * DigitsValue(SubSeq(s, 1, Len(s) - 1)) + DigitVal(s[Len(s)])

\* whether int(s) succeeds: surrounding whitespace, an optional sign, digits
\* (the underscore digit separators int() also accepts are not modelled)
IsIntLiteral(s) ==
    LET t == Strip(s, Whitespace)
        d == IF t # <<>> /\ Head(t) \in {"+", "-"} THEN Tail(t) ELSE t
    IN  d # <<>> /\ \A k \in 1..Len(d) : IsDigit(d[k])

\* int(s), where it succeeds
IntValue(s) ==
    LET t == Strip(s, Whitespace)
        neg == t # <<>> /\ Head(t) = "-"
        d == IF t # <<>> /\ Head(t) \in {"+", "-"} THEN Tail(t) ELSE t
    IN  IF neg THEN 0 - DigitsValue(d) ELSE DigitsValue(d)

(***************************************************************************)
(* Paths (os.path, POSIX flavour)                                          *)
(***************************************************************************)

\* the process's working directory, against which abspath resolves
Cwd == <<"/", "w">>

\* os.path.basename
Basename(p) == SubSeq(p, RFind(p, "/") + 1, Len(p))

\* os.path.splitext(p)[-1]: from the last dot of the basename, leading dots
\* of the basename not counting
SplitExt(p) ==
    LET b == Basename(p)
        lead == Len(b) - Len(LStrip(b, {"."}))
        dot == RFind(b, ".")
    IN  IF dot > lead THEN SubSeq(b, dot, Len(b)) ELSE <<>>

RECURSIVE NormComponents(_, _)
NormComponents(comps, stack) ==
    IF comps = <<>> THEN stack
    ELSE LET c == Head(comps)
         IN  IF c = <<>> \/ c = <<".">>
             THEN NormComponents(Tail(comps), stack)
             ELSE IF c = <<".", ".">>
             THEN NormComponents(Tail(comps),
                      IF stack = <<>> THEN stack
                      ELSE SubSeq(stack, 1, Len(stack) - 1))
             ELSE NormComponents(Tail(comps), Append(stack, c))

\* os.path.abspath: join with the working directory unless absolute, then
\* normpath
Abspath(p) ==
    LET full == IF p # <<>> /\ Head(p) = "/" THEN p ELSE Cwd \o <<"/">> \o p
    IN  <<"/">> \o Join(NormComponents(SplitOn(full, "/"), <<>>), <<"/">>)

(***************************************************************************)
(* modules/loader.py                                                       *)
(***************************************************************************)

SUPPORTED_EXTS ==
    { <<".", "t", "x", "t">>, <<".", "m", "d">>, <<".", "h", "t", "m", "l">>,
      <<".", "h", "t", "m">>, <<".", "d", "o", "c", "x">>,
      <<".", "p", "p", "t", "x">>, <<".", "p", "d", "f">> }

DROP_CATEGORIES_FOR_DOCX_PDF == {"Header", "Footer", "PageNumber"}

\* getattr(el, "text", None) followed by (s or "").strip(): an element
\* without a text attribute (an Image) gives the empty string
normalize_text(s) == Strip(s, Whitespace)

ElementText(el) == IF "text" \in DOMAIN el THEN el.text ELSE <<>>

\* sha1(abspath)[:12]: a digest, modelled as an injective tag of the
\* absolute path (equal absolute paths give equal ids, different ones
\* different ids); never empty
hash_path(path) == <<"#">> \o Abspath(path)

\* elements_to_docs with the path stamped as it was given, not made
\* absolute
RECURSIVE elements_to_docs_given_path(_, _, _, _, _)
elements_to_docs_given_path(path, elements, source_id, file_label, ext) ==
    IF elements = <<>> THEN <<>>
    ELSE LET text == normalize_text(ElementText(Head(elements)))
             rest == elements_to_docs_given_path(path, Tail(elements),
                                                 source_id, file_label, ext)
         IN  IF text = <<>> THEN rest
             ELSE << [page_content |-> text,
                      metadata |-> [file_label |-> file_label,
                                    source_id |-> source_id,
                                    source |-> Basename(path),
                                    path |-> path,
                                    ext |-> ext]] >> \o rest

RECURSIVE elements_to_docs(_, _, _, _, _)
elements_to_docs(path, elements, source_id, file_label, ext) ==
    IF elements = <<>> THEN <<>>
    ELSE LET text == normalize_text(ElementText(Head(elements)))
             rest == elements_to_docs(path, Tail(elements), source_id,
                                      file_label, ext)
         IN  IF text = <<>> THEN rest
             ELSE << [page_content |-> text,
                      metadata |-> [file_label |-> file_label,
                                    source_id |-> source_id,
                                    source |-> Basename(path),
                                    path |-> Abspath(path),
                                    ext |-> ext]] >> \o rest

\* the category filter applied to .pdf and .docx
RECURSIVE DropStructural(_)
DropStructural(elements) ==
    IF elements = <<>> THEN <<>>
    ELSE LET el == Head(elements)
         IN  IF "category" \in DOMAIN el
                /\ el.category \in DROP_CATEGORIES_FOR_DOCX_PDF
             THEN DropStructural(Tail(elements))
             ELSE <<el>> \o DropStructural(Tail(elements))

\* _parse_one_file from the call of partition on (lines 104-141). outcome is
\* what partition(filename=path) does: [raises |-> TRUE] or
\* [raises |-> FALSE, elements |-> ...].
ParseSupported(path, file_label, outcome, ext) ==
    IF outcome.raises
    THEN [exc |-> "ParseError", partitioned |-> TRUE]
    ELSE LET elements ==
                 IF ext \in {<<".", "p", "d", "f">>,
                             <<".", "d", "o", "c", "x">>}
                 THEN DropStructural(outcome.elements)
                 ELSE outcome.elements
             source_id == hash_path(path)
         IN  [exc |-> "none", partitioned |-> TRUE,
              docs |-> elements_to_docs(path, elements, source_id,
                                        file_label, ext),
              manifest_item |-> [file_label |-> file_label,
                                 source_id |-> source_id,
                                 filename |-> Basename(path),
                                 path |-> Abspath(path),
                                 ext |-> ext]]

\* parse_one_file with an unsupported file skipped instead of rejected
parse_one_file_skipping(path, file_label, outcome) ==
    LET ext == Lower(SplitExt(path))
    IN  IF ext \notin SUPPORTED_EXTS
        THEN [exc |-> "none", partitioned |-> FALSE, docs |-> <<>>,
              manifest_item |-> [file_label |-> file_label,
                                 source_id |-> hash_path(path),
                                 filename |-> Basename(path),
                                 path |-> Abspath(path),
                                 ext |-> ext]]
        ELSE ParseSupported(path, file_label, outcome, ext)

\* _parse_one_file. The result says whether the call raised (exc), whether
\* partition was reached (partitioned) and, when it returned, docs and
\* manifest_item.
parse_one_file(path, file_label, outcome) ==
    LET ext == Lower(SplitExt(path))
    IN  IF ext \notin SUPPORTED_EXTS
        THEN [exc |-> "ValueError", partitioned |-> FALSE]
        ELSE ParseSupported(path, file_label, outcome, ext)

\* f"[{i}]"
FileLabel(i) == <<"[">> \o IntToStr(i) \o <<"]">>

\* the grouping key of merge_docs_by_file (its default keys)
MergeKey(d) ==
    <<d.metadata.source_id, d.metadata.file_label, d.metadata.source,
      d.metadata.path, d.metadata.ext>>

\* the keys of groups, in insertion (first occurrence) order
RECURSIVE MergeKeys(_, _)
MergeKeys(docs, seen) ==
    IF docs = <<>> THEN seen
    ELSE LET k == MergeKey(Head(docs))
         IN  IF \E j \in 1..Len(seen) : seen[j] = k
             THEN MergeKeys(Tail(docs), seen)
             ELSE MergeKeys(Tail(docs), Append(seen, k))

\* groups[k]: the non-empty page_contents of the docs with key k, in order
RECURSIVE GroupParts(_, _)
GroupParts(docs, k) ==
    IF docs = <<>> THEN <<>>
    ELSE LET d == Head(docs)
         IN  IF MergeKey(d) = k /\ d.page_content # <<>>
             THEN <<d.page_content>> \o GroupParts(Tail(docs), k)
             ELSE GroupParts(Tail(docs), k)

RECURSIVE MergeGroups(_, _)
MergeGroups(docs, ks) ==
    IF ks = <<>> THEN <<>>
    ELSE LET k == Head(ks)
             text == Join(GroupParts(docs, k), <<"\n">>)
             rest == MergeGroups(docs, Tail(ks))
         IN  IF Strip(text, Whitespace) # <<>>
             THEN << [page_content |-> text,
                      metadata |-> [source_id |-> k[1], file_label |-> k[2],
                                    source |-> k[3], path |-> k[4],
                                    ext |-> k[5]]] >> \o rest
             ELSE rest

merge_docs_by_file(docs) == MergeGroups(docs, MergeKeys(docs, <<>>))

\* SplitSpans with char_end taken from the span as the splitter returned it
RECURSIVE SplitSpansRawLength(_, _, _, _, _, _)
SplitSpansRawLength(d, spans, idx, start, chunk_overlap, uuid) ==
    IF spans = <<>> THEN <<>>
    ELSE LET s == normalize_text(Head(spans))
         IN  IF s = <<>>
             THEN SplitSpansRawLength(d, Tail(spans), idx + 1, start,
                                      chunk_overlap, uuid)
             ELSE LET char_start == start
                      char_end == start + Len(Head(spans))
                      next == IF char_end - chunk_overlap > 0
                              THEN char_end - chunk_overlap ELSE 0
                  IN  << [page_content |-> s,
                          metadata |-> [chunk_index |-> idx,
                                        chunk_id |-> uuid,
                                        char_start |-> char_start,
                                        char_end |-> char_end]
                                       @@ d.metadata] >>
                      \o SplitSpansRawLength(d, Tail(spans), idx + 1, next,
                                             chunk_overlap, uuid + 1)

\* the inner loop of split_documents over the spans of one document d:
\* idx is the enumerate index of Head(spans), start the running cursor,
\* uuid the next fresh chunk id
RECURSIVE SplitSpans(_, _, _, _, _, _)
SplitSpans(d, spans, idx, start, chunk_overlap, uuid) ==
    IF spans = <<>> THEN <<>>
    ELSE LET s == normalize_text(Head(spans))
         IN  IF s = <<>>
             THEN SplitSpans(d, Tail(spans), idx + 1, start, chunk_overlap,
                             uuid)
             ELSE LET char_start == start
                      char_end == start + Len(s)
                      next == IF char_end - chunk_overlap > 0
                              THEN char_end - chunk_overlap ELSE 0
                  IN  << [page_content |-> s,
                          metadata |-> [chunk_index |-> idx,
                                        chunk_id |-> uuid,
                                        char_start |-> char_start,
                                        char_end |-> char_end]
                                       @@ d.metadata] >>
                      \o SplitSpans(d, Tail(spans), idx + 1, next,
                                    chunk_overlap, uuid + 1)

\* the chunks split_documents appends for one document, given the spans
\* splitter.split_text returned for it
split_one_document(d, spans, chunk_overlap, uuid) ==
    SplitSpans(d, spans, 0, 0, chunk_overlap, uuid)

\* LoadLoop with manifest.append(item) moved under "if docs:"
RECURSIVE LoadLoopEntryIfDocs(_, _, _, _, _, _)
LoadLoopEntryIfDocs(ps, outcomes, k, docs_acc, manifest_acc, calls) ==
    IF k > Len(ps)
    THEN [exc |-> "none", parse_calls |-> calls,
          docs |-> docs_acc, manifest |-> manifest_acc]
    ELSE LET r == parse_one_file(ps[k], FileLabel(k), outcomes[k])
             calls2 == IF r.partitioned THEN Append(calls, ps[k]) ELSE calls
         IN  IF r.exc # "none"
             THEN [exc |-> r.exc, parse_calls |-> calls2]
             ELSE LoadLoopEntryIfDocs(ps, outcomes, k + 1, docs_acc \o r.docs,
                      IF r.docs # <<>>
                      THEN Append(manifest_acc, r.manifest_item)
                      ELSE manifest_acc, calls2)

\* the loop of load_multiple_documents from position k on: outcomes[k] is
\* what partition does for paths[k] if it is called. parse_calls lists the
\* paths partition was called with.
RECURSIVE LoadLoop(_, _, _, _, _, _)
LoadLoop(ps, outcomes, k, docs_acc, manifest_acc, calls) ==
    IF k > Len(ps)
    THEN [exc |-> "none", parse_calls |-> calls,
          docs |-> docs_acc, manifest |-> manifest_acc]
    ELSE LET r == parse_one_file(ps[k], FileLabel(k), outcomes[k])
             calls2 == IF r.partitioned THEN Append(calls, ps[k]) ELSE calls
         IN  IF r.exc # "none"
             THEN [exc |-> r.exc, parse_calls |-> calls2]
             ELSE LoadLoop(ps, outcomes, k + 1, docs_acc \o r.docs,
                           Append(manifest_acc, r.manifest_item), calls2)

\* load_multiple_documents with the cap checked after the loop
load_multiple_documents_late_cap(ps, lim, outcomes) ==
    LET r == LoadLoop(ps, outcomes, 1, <<>>, <<>>, <<>>)
    IN  IF Len(ps) > lim
        THEN [exc |-> "TooManyFiles", parse_calls |-> r.parse_calls]
        ELSE r

\* limit: int = 5
DEFAULT_LIMIT == 5

\* load_multiple_documents(paths, limit=lim): a raised exception is a result
\* without docs and manifest (nothing is returned to the caller)
load_multiple_documents(ps, lim, outcomes) ==
    IF Len(ps) > lim
    THEN [exc |-> "TooManyFiles", parse_calls |-> <<>>]
    ELSE LoadLoop(ps, outcomes, 1, <<>>, <<>>, <<>>)

\* split_documents: spans_of[k] is what splitter.split_text returned for
\* documents[k]; uuid numbers the fresh chunk ids
RECURSIVE SplitDocs(_, _, _, _, _)
SplitDocs(ds, spans_of, k, overlap, uuid) ==
    IF k > Len(ds) THEN <<>>
    ELSE LET cs == split_one_document(ds[k], spans_of[k], overlap, uuid)
         IN  cs \o SplitDocs(ds, spans_of, k + 1, overlap, uuid + Len(cs))

split_documents(ds, spans_of, overlap) == SplitDocs(ds, spans_of, 1, overlap, 1)

\* _label_key of build_citation_footer: int(lbl.strip("[]")), and 10**9
\* when int() raises
label_key(lbl) ==
    LET t == Strip(lbl, {"[", "]"})
    IN  IF IsIntLiteral(t) THEN IntValue(t) ELSE 10^9

\* the characters of the footer that are not ASCII in the source, and the
\* default title, each written as one ASCII character
OpenParen == "("

CloseParen == ")"

Ellipsis == "~"

DefaultTitle == <<"T">>

RECURSIVE SeqToSet(_)
SeqToSet(q) == IF q = <<>> THEN {} ELSE {Head(q)} \cup SeqToSet(Tail(q))

\* the manifest kept whole, whatever was used
FilterUsedKeepAll(mf, used) == mf

\* [m for m in manifest if m["source_id"] in used]
RECURSIVE FilterUsed(_, _)
FilterUsed(mf, used) ==
    IF mf = <<>> THEN <<>>
    ELSE IF Head(mf).source_id \in used
    THEN <<Head(mf)>> \o FilterUsed(Tail(mf), used)
    ELSE FilterUsed(Tail(mf), used)

\* one step of a stable sort: it goes behind every item whose key is not
\* larger than its own
RECURSIVE InsertByLabel(_, _)
InsertByLabel(sorted, it) ==
    IF sorted = <<>> THEN <<it>>
    ELSE IF label_key(Head(sorted).file_label) <= label_key(it.file_label)
    THEN <<Head(sorted)>> \o InsertByLabel(Tail(sorted), it)
    ELSE <<it>> \o sorted

RECURSIVE SortLoop(_, _)
SortLoop(items, acc) ==
    IF items = <<>> THEN acc
    ELSE SortLoop(Tail(items), InsertByLabel(acc, Head(items)))

\* items.sort(key=lambda x: _label_key(x["file_label"])): list.sort is stable
SortByLabel(items) == SortLoop(items, <<>>)

\* the used entries picked id by id, in the order the ids were supplied
RECURSIVE ItemsInSupplyOrder(_, _)
ItemsInSupplyOrder(used_source_ids, mf) ==
    IF used_source_ids = <<>> THEN <<>>
    ELSE FilterUsed(mf, {Head(used_source_ids)})
         \o ItemsInSupplyOrder(Tail(used_source_ids), mf)

\* the manifest entries build_citation_footer renders, in rendering order
FooterItems(used_source_ids, mf) ==
    SortByLabel(FilterUsed(mf, SeqToSet(used_source_ids)))

\* the caller's manifest list after the call: items is a new list, and it
\* is items that is sorted
ManifestAfterFooter(used_source_ids, mf) == mf

\* f'{it["file_label"]} {it["filename"]}（{it["path"]}）'
FooterLine(it) ==
    it.file_label \o <<" ">> \o it.filename \o <<OpenParen>> \o it.path
    \o <<CloseParen>>

\* build_citation_footer(used_source_ids, manifest, title=title); the
\* iterable used_source_ids is the sequence of the ids it yields
build_citation_footer(used_source_ids, mf, title) ==
    IF SeqToSet(used_source_ids) = {} THEN <<>>
    ELSE LET items == FooterItems(used_source_ids, mf)
         IN  Join(<<title>> \o [k \in 1..Len(items) |-> FooterLine(items[k])],
                  <<"\n">>)

(***************************************************************************)
(* rag_core.py                                                             *)
(***************************************************************************)

\* max_snippet_chars: int = 300
DEFAULT_MAX_SNIPPET_CHARS == 300

\* meta.get(key) or "": a missing key gives the empty string
MetaGet(meta, key) == IF key \in DOMAIN meta THEN meta[key] ELSE <<>>

\* (d.page_content or "").strip(), cut to max_snippet_chars with a mark
\* when longer; max_snippet_chars = 0 switches the cut off
Snippet(text, max_snippet_chars) ==
    LET snippet == Strip(text, Whitespace)
    IN  IF max_snippet_chars # 0 /\ Len(snippet) > max_snippet_chars
        THEN Prefix(snippet, max_snippet_chars) \o <<Ellipsis>>
        ELSE snippet

\* the reference get_rag_response makes of one retrieved document
RefOf(d, max_snippet_chars) ==
    LET meta == d.metadata
        src == MetaGet(meta, "source")
    IN  [file_label |-> MetaGet(meta, "file_label"),
         source_id |-> MetaGet(meta, "source_id"),
         source |-> IF src # <<>> THEN src
                    ELSE Basename(MetaGet(meta, "path")),
         path |-> MetaGet(meta, "path"),
         ext |-> MetaGet(meta, "ext"),
         score |-> "None",
         snippet |-> Snippet(d.page_content, max_snippet_chars)]

RefKey(ref) == <<ref.file_label, ref.source, ref.snippet>>

\* RefLoop with the text of the key taken before the cut to
\* max_snippet_chars
RECURSIVE RefLoopUncutKey(_, _, _, _, _)
RefLoopUncutKey(src_docs, refs, seen, used, max_snippet_chars) ==
    IF src_docs = <<>> THEN [refs |-> refs, used_source_ids |-> used]
    ELSE LET ref == RefOf(Head(src_docs), max_snippet_chars)
             key == <<ref.file_label, ref.source,
                      Strip(Head(src_docs).page_content, Whitespace)>>
         IN  IF key \in seen
             THEN RefLoopUncutKey(Tail(src_docs), refs, seen, used,
                                  max_snippet_chars)
             ELSE RefLoopUncutKey(Tail(src_docs), Append(refs, ref),
                                  seen \cup {key},
                                  IF ref.source_id # <<>>
                                     /\ ref.source_id \notin SeqToSet(used)
                                  THEN Append(used, ref.source_id) ELSE used,
                                  max_snippet_chars)

\* the loop over src_docs: refs, seen and used_source_ids as it leaves them.
\* used_source_ids, a Python set, is kept as the sequence of its members in
\* insertion order.
RECURSIVE RefLoop(_, _, _, _, _)
RefLoop(src_docs, refs, seen, used, max_snippet_chars) ==
    IF src_docs = <<>> THEN [refs |-> refs, used_source_ids |-> used]
    ELSE LET ref == RefOf(Head(src_docs), max_snippet_chars)
         IN  IF RefKey(ref) \in seen
             THEN RefLoop(Tail(src_docs), refs, seen, used,
                          max_snippet_chars)
             ELSE RefLoop(Tail(src_docs), Append(refs, ref),
                          seen \cup {RefKey(ref)},
                          IF ref.source_id # <<>>
                             /\ ref.source_id \notin SeqToSet(used)
                          THEN Append(used, ref.source_id) ELSE used,
                          max_snippet_chars)

\* get_rag_response, given what chain({"question": query}) returned: the
\* answer text and the source documents
get_rag_response(answer, src_docs, mf, max_snippet_chars) ==
    LET r == RefLoop(src_docs, <<>>, {}, <<>>, max_snippet_chars)
        footer_text ==
            IF r.used_source_ids # <<>>
            THEN build_citation_footer(r.used_source_ids, mf, DefaultTitle)
            ELSE <<>>
    IN  [answer |-> IF footer_text # <<>>
                    THEN answer \o <<"\n", "\n">> \o footer_text
                    ELSE answer,
         references |-> r.refs,
         footer |-> footer_text]

\* chunk_overlap: int = 50 (chunk_size goes to the splitter, whose output
\* is given)
PIPELINE_CHUNK_OVERLAP == 50

\* search_kwargs "k": 6
RETRIEVER_K == 6

\* the merged documents create_rag_pipeline hands to split_documents, when
\* loading returns
PipelineDocs(file_paths, outcomes) ==
    LET ld == load_multiple_documents(file_paths, DEFAULT_LIMIT, outcomes)
    IN  IF ld.exc = "none" THEN merge_docs_by_file(ld.docs) ELSE <<>>

\* create_rag_pipeline. The world outside is given: what partition does for
\* each file (outcomes), what the splitter returns for each merged document
\* (spans_of), whether the embedding model loads and embeds (embed_ok) and
\* whether the chat model is constructed (llm_ok). A raised exception is a
\* result without the session objects; saved is what save_local wrote
\* under index_dir before the call ended (written says whether it wrote).
create_rag_pipeline(file_paths, model_key, outcomes, spans_of, embed_ok, llm_ok) ==
    LET ld == load_multiple_documents(file_paths, DEFAULT_LIMIT, outcomes)
    IN  IF ld.exc # "none"
        THEN [exc |-> ld.exc, written |-> FALSE]
        ELSE LET cs == split_documents(merge_docs_by_file(ld.docs), spans_of,
                                       PIPELINE_CHUNK_OVERLAP)
             IN  IF ~embed_ok
                 THEN [exc |-> "EmbeddingError", written |-> FALSE]
                 ELSE IF cs = <<>>
                 THEN [exc |-> "IndexError", written |-> FALSE]
                 ELSE IF ~llm_ok
                 THEN [exc |-> "LLMError", written |-> TRUE, saved |-> cs]
                 ELSE [exc |-> "none", written |-> TRUE, saved |-> cs,
                       llm |-> model_key,
                       vectorstore |-> cs,
                       retriever |-> [search_type |-> "mmr",
                                      k |-> RETRIEVER_K],
                       memory |-> <<>>,
                       chain |-> [return_source_documents |-> TRUE],
                       manifest |-> ld.manifest]

(***************************************************************************)
(* app.py                                                                  *)
(***************************************************************************)

\* the model picked in the sidebar (one of LLM_CANDIDATES)
ModelChoices == {"deepseek-v3"}

\* elif len(uploaded_files) > 5
UPLOAD_CAP == 5

\* os.path.join("data", f.name)
DataPath(name) == <<"d", "a", "t", "a", "/">> \o name

\* what data/<name> holds once every uploaded file has been written, in
\* order: the bytes of the last upload of that name
DiskContent(uploaded_files, name) ==
    LET last == CHOOSE k \in 1..Len(uploaded_files) :
                    /\ uploaded_files[k].name = name
                    /\ \A j \in (k + 1)..Len(uploaded_files) :
                           uploaded_files[j].name # name
    IN  uploaded_files[last].data

(***************************************************************************)
(* Bounds and input sets                                                   *)
(***************************************************************************)

\* the longest batch of paths handed to load_multiple_documents
MaxPaths == 3

\* a cap below MaxPaths, so that a batch can exceed it
SmallLimit == 2

\* the longest manifest handed to build_citation_footer on its own
MaxManifest == 2

\* the most spans the splitter returns for one document
MaxSpans == 2

\* the most documents one call of the chain returns
MaxRetrieved == 3

\* a max_snippet_chars shorter than the modelled chunk texts
SmallSnippet == 2

\* the most files uploaded for one build
MaxUpload == 2

\* the most questions kept in chat_history_view before the user clears
MaxTurns == 1

\* the most documents the chain returns for a question of the session
MaxAskDocs == 2

\* sequences over S of length at most n
SeqsUpTo(S, n) == UNION { [1..m -> S] : m \in 0..n }

\* a.txt, ./a.txt (the same file as a.txt), c.exe (unsupported), d.PDF
PathChoices ==
    { <<"a", ".", "t", "x", "t">>,
      <<".", "/", "a", ".", "t", "x", "t">>,
      <<"c", ".", "e", "x", "e">>,
      <<"d", ".", "P", "D", "F">> }

\* what partition may do with a file: raise; give no element with text;
\* give a header and a paragraph
PartitionOutcomes ==
    { [raises |-> TRUE],
      [raises |-> FALSE,
       elements |-> << [category |-> "Image"],
                       [category |-> "NarrativeText", text |-> <<" ">>] >>],
      [raises |-> FALSE,
       elements |-> << [category |-> "Header", text |-> <<"h">>],
                       [category |-> "NarrativeText",
                        text |-> <<" ", "a", "\n">>] >>] }

VARIABLES
    \* load_multiple_documents and merge_docs_by_file: the arguments, what
    \* partition did for each position (partitioned), the call's result
    \* (loaded) and the merged documents (docs)
    paths, limit, ingest_pc, partitioned, loaded, docs

ingestVars == <<paths, limit, ingest_pc, partitioned, loaded, docs>>

VARIABLES
    \* build_citation_footer called on one manifest list: the list as the
    \* caller holds it (foot_manifest) and as it was first given
    \* (given_manifest), and the latest calls, each with the ids supplied
    \* and the string returned
    foot_manifest, given_manifest, footer_calls

footerVars == <<foot_manifest, given_manifest, footer_calls>>

VARIABLES
    \* split_documents: its arguments, what the splitter returned for each
    \* document (split_spans) and the chunks returned
    documents, chunk_size, chunk_overlap, split_pc, split_spans, chunks

splitVars ==
    <<documents, chunk_size, chunk_overlap, split_pc, split_spans, chunks>>

VARIABLES
    \* get_rag_response: what the chain returned (src_docs), the arguments
    \* and the response
    src_docs, resp_manifest, max_snippet_chars, resp_pc, response

respVars == <<src_docs, resp_manifest, max_snippet_chars, resp_pc, response>>

VARIABLES
    \* st.session_state: rag_session (<<>> for None, else the one session
    \* record), uploaded_file_names, chat_history_view, and manifest
    \* (session_manifest)
    rag_session, uploaded_file_names, chat_history_view, session_manifest,
    \* the FAISS index saved under vectorstore/index (<<>>: none saved yet)
    index_dir,
    \* the message of the latest rerun (st.success / st.error)
    notice,
    \* the locals of the rerun that answers a question: what the chain
    \* returned and the response made of it (<<>> in any other rerun)
    last_ask

appVars ==
    <<rag_session, uploaded_file_names, chat_history_view, session_manifest,
      index_dir, notice, last_ask>>

vars == <<ingestVars, footerVars, splitVars, respVars, appVars>>

\* the groups of variables a specification does not use stay at these values
IngestIdle ==
    /\ paths = <<>> /\ limit = DEFAULT_LIMIT /\ ingest_pc = "idle"
    /\ partitioned = <<>> /\ loaded = [exc |-> "pending"] /\ docs = <<>>

FooterIdle ==
    /\ foot_manifest = <<>> /\ given_manifest = <<>> /\ footer_calls = <<>>

SplitIdle ==
    /\ documents = <<>> /\ chunk_size = 1 /\ chunk_overlap = 0
    /\ split_pc = "idle" /\ split_spans = <<>> /\ chunks = <<>>

AppIdle ==
    /\ rag_session = <<>> /\ uploaded_file_names = <<>>
    /\ chat_history_view = <<>> /\ session_manifest = <<>>
    /\ index_dir = <<>> /\ notice = "idle" /\ last_ask = <<>>

RespIdle ==
    /\ src_docs = <<>> /\ resp_manifest = <<>>
    /\ max_snippet_chars = DEFAULT_MAX_SNIPPET_CHARS
    /\ resp_pc = "idle" /\ response = [answer |-> <<>>]

IngestInit ==
    /\ paths \in SeqsUpTo(PathChoices, MaxPaths)
    /\ limit \in {SmallLimit, DEFAULT_LIMIT}
    /\ ingest_pc = "load"
    /\ partitioned = <<>>
    /\ loaded = [exc |-> "pending"]
    /\ docs = <<>>
    /\ FooterIdle /\ SplitIdle /\ RespIdle /\ AppIdle

\* docs, manifest = load_multiple_documents(file_paths, ...)
Load ==
    /\ ingest_pc = "load"
    /\ \E outcomes \in [1..Len(paths) -> PartitionOutcomes] :
           /\ partitioned' = outcomes
           /\ loaded' = load_multiple_documents(paths, limit, outcomes)
    /\ ingest_pc' = IF loaded'.exc = "none" THEN "merge" ELSE "raised"
    /\ UNCHANGED <<paths, limit, docs, footerVars, splitVars, respVars,
                   appVars>>

\* docs = merge_docs_by_file(docs)
Merge ==
    /\ ingest_pc = "merge"
    /\ docs' = merge_docs_by_file(loaded.docs)
    /\ ingest_pc' = "merged"
    /\ UNCHANGED <<paths, limit, partitioned, loaded, footerVars, splitVars,
                   respVars, appVars>>

IngestNext == Load \/ Merge

SpecIngest == IngestInit /\ [][IngestNext]_vars

(***************************************************************************)
(* Properties of load_multiple_documents                                   *)
(***************************************************************************)

Supported(path) == Lower(SplitExt(path)) \in SUPPORTED_EXTS

LoadCalled == ingest_pc # "load"

NothingReturned == "docs" \notin DOMAIN loaded /\ "manifest" \notin DOMAIN loaded

\* the documents of `loaded` that carry the label of position k
DocsOfPosition(k) ==
    { j \in 1..Len(loaded.docs) :
          loaded.docs[j].metadata.file_label = loaded.manifest[k].file_label }

\* C2: a batch within the cap whose files all parse returns a manifest with
\* exactly one entry per input path, in input order, entry k (1-based)
\* labelled "[k]", whatever number of documents each file yields; a file
\* without any non-empty element raises nothing and still has its entry.
C2_ManifestOnePerPath ==
    ( /\ LoadCalled
      /\ Len(paths) <= limit
      /\ \A k \in 1..Len(paths) :
             Supported(paths[k]) /\ ~partitioned[k].raises )
    => /\ loaded.exc = "none"
       /\ Len(loaded.manifest) = Len(paths)
       /\ \A k \in 1..Len(paths) :
              /\ loaded.manifest[k].file_label = <<"[", DigitChars[k + 1], "]">>
              /\ label_key(loaded.manifest[k].file_label) = k
              /\ loaded.manifest[k].filename = Basename(paths[k])
              /\ loaded.manifest[k].path = Abspath(paths[k])

\* a returned batch of at least two files, one that yielded no document and
\* one that yielded some
C2_Witness ==
    /\ LoadCalled /\ loaded.exc = "none" /\ Len(paths) >= 2
    /\ Len(loaded.manifest) = Len(paths)
    /\ \E k \in 1..Len(paths) : DocsOfPosition(k) = {}
    /\ \E k \in 1..Len(paths) : DocsOfPosition(k) # {}

\* C3: a batch longer than the cap fails with the too-many-files error
\* before partition is called for any file, and returns neither documents
\* nor a manifest.
C3_TooManyBeforeParsing ==
    (LoadCalled /\ Len(paths) > limit)
    => /\ loaded.exc = "TooManyFiles"
       /\ ingest_pc = "raised"
       /\ loaded.parse_calls = <<>>
       /\ NothingReturned

\* an over-long batch of supported, parsable files was refused
C3_Witness ==
    /\ ingest_pc = "raised" /\ Len(paths) > limit
    /\ \A k \in 1..Len(paths) : Supported(paths[k]) /\ ~partitioned[k].raises

\* the first position with an unsupported extension, 0 when there is none
FirstUnsupported ==
    IF \E k \in 1..Len(paths) : ~Supported(paths[k])
    THEN CHOOSE k \in 1..Len(paths) :
             /\ ~Supported(paths[k])
             /\ \A j \in 1..(k - 1) : Supported(paths[j])
    ELSE 0

FootLabels ==
    { <<"[", "2", "]">>, <<"[", "?", "]">>,
      <<"[", "1", "0", "0", "0", "0", "0", "0", "0", "0", "1", "]">> }

FootIds == { <<"#", "x">>, <<"#", "y">> }

FootEntries ==
    { [file_label |-> l, source_id |-> s, filename |-> <<s[2]>>,
       path |-> <<"/", s[2]>>, ext |-> <<".", "m", "d">>] :
      l \in FootLabels, s \in FootIds }

\* the ids supplied to one call: each order and each repetition of as many
\* ids as there are
UsedChoices == SeqsUpTo(FootIds, Cardinality(FootIds))

FooterInit ==
    /\ foot_manifest \in SeqsUpTo(FootEntries, MaxManifest)
    /\ given_manifest = foot_manifest
    /\ footer_calls = <<>>
    /\ IngestIdle /\ SplitIdle /\ RespIdle /\ AppIdle

\* footer = build_citation_footer(used_source_ids, manifest); the last two
\* calls are kept
CallFooter ==
    /\ \E used \in UsedChoices :
           /\ footer_calls' =
                  (IF footer_calls = <<>> THEN <<>>
                   ELSE <<footer_calls[Len(footer_calls)]>>)
                  \o << [used |-> used,
                         out |-> build_citation_footer(used, foot_manifest,
                                                       DefaultTitle)] >>
           /\ foot_manifest' = ManifestAfterFooter(used, foot_manifest)
    /\ UNCHANGED <<given_manifest, ingestVars, splitVars, respVars, appVars>>

FooterNext == CallFooter

SpecFooter == FooterInit /\ [][FooterNext]_vars

ParsableLabel(lbl) == IsIntLiteral(Strip(lbl, {"[", "]"}))

LabelInt(lbl) == IntValue(Strip(lbl, {"[", "]"}))

\* the positions of mf whose source_id is among used
UsedPositions(used, mf) == { k \in 1..Len(mf) : mf[k].source_id \in used }

\* position a of mf is to be rendered before position b
RendersBefore(mf, a, b) ==
    LET la == mf[a].file_label
        lb == mf[b].file_label
    IN  IF ParsableLabel(la) /\ ParsableLabel(lb)
        THEN LabelInt(la) < LabelInt(lb) \/ (LabelInt(la) = LabelInt(lb) /\ a < b)
        ELSE IF ParsableLabel(la) THEN TRUE
        ELSE IF ParsableLabel(lb) THEN FALSE
        ELSE a < b

\* the used positions in the order the footer is to list them
ExpectedOrder(used, mf) ==
    LET U == UsedPositions(used, mf)
    IN  CHOOSE p \in [1..Cardinality(U) -> U] :
            \A i, j \in 1..Cardinality(U) :
                i < j => p[i] # p[j] /\ RendersBefore(mf, p[i], p[j])

\* the lines of a footer after its title line
EntryLines(footer) == Tail(SplitOn(footer, "\n"))

\* C7: for a non-empty used set the footer is the title line followed by
\* one line per manifest entry whose source_id is used, and by no other
\* line, ordered ascending by the integer inside file_label; entries whose
\* label does not parse come after all that parse, in manifest order.
C7_FooterOrder ==
    \A c \in 1..Len(footer_calls) :
        LET used == SeqToSet(footer_calls[c].used)
            p == ExpectedOrder(used, given_manifest)
        IN  used # {}
            => /\ Head(SplitOn(footer_calls[c].out, "\n")) = DefaultTitle
               /\ EntryLines(footer_calls[c].out)
                  = [k \in 1..Len(p) |-> FooterLine(given_manifest[p[k]])]

\* C8: a call with no id returns the empty string; two calls given the same
\* set of ids return the same string, in whatever order and however often
\* the ids were supplied and whatever was called before; and the manifest
\* list is as it was given.
C8_FooterDeterministic ==
    /\ foot_manifest = given_manifest
    /\ \A c \in 1..Len(footer_calls) :
           SeqToSet(footer_calls[c].used) = {} => footer_calls[c].out = <<>>
    /\ \A c, d \in 1..Len(footer_calls) :
           SeqToSet(footer_calls[c].used) = SeqToSet(footer_calls[d].used)
           => footer_calls[c].out = footer_calls[d].out

\* two successive calls were given the same two ids in opposite orders, a
\* manifest that holds both with the later label first, and returned the
\* same non-empty footer
C8_Witness ==
    /\ Len(footer_calls) = 2
    /\ Len(footer_calls[1].used) = 2
    /\ footer_calls[1].used[1] # footer_calls[1].used[2]
    /\ footer_calls[2].used = <<footer_calls[1].used[2], footer_calls[1].used[1]>>
    /\ footer_calls[1].out = footer_calls[2].out
    /\ Len(EntryLines(footer_calls[1].out)) = 2
    /\ Len(given_manifest) >= 2
    /\ label_key(given_manifest[1].file_label)
       > label_key(given_manifest[2].file_label)

(***************************************************************************)
(* split_documents on merged bodies                                        *)
(***************************************************************************)

\* a merged body of the file at position k, with the metadata
\* merge_docs_by_file gives it
Body(k, text) ==
    [page_content |-> text,
     metadata |-> [source_id |-> <<"#", "/", "w", "/", DigitChars[k + 1]>>,
                   file_label |-> FileLabel(k),
                   source |-> <<DigitChars[k + 1]>>,
                   path |-> <<"/", "w", "/", DigitChars[k + 1]>>,
                   ext |-> <<".", "t", "x", "t">>]]

\* one body, or two bodies of different files
DocumentChoices ==
    { << Body(1, <<"a", " ", "b">>) >>,
      << Body(1, <<"a", " ", "b">>), Body(2, <<"a", "b">>) >> }

\* (chunk_size, chunk_overlap) with 0 <= chunk_overlap < chunk_size
ChunkParams == { <<2, 1>>, <<2, 0>>, <<1, 0>> }

\* the splitter is a library outside the repository: it may return any
\* pieces of the text of at most chunk_size characters, blank ones included
SpanTexts(text, size) ==
    {<<>>} \cup { SubSeq(text, ab[1], ab[2]) :
                  ab \in { x \in (1..Len(text)) \X (1..Len(text)) :
                               x[2] >= x[1] /\ x[2] - x[1] + 1 <= size } }

SplitterOutputs(text, size) == SeqsUpTo(SpanTexts(text, size), MaxSpans)

SplitInit ==
    /\ documents \in DocumentChoices
    /\ \E cp \in ChunkParams : chunk_size = cp[1] /\ chunk_overlap = cp[2]
    /\ split_pc = "call"
    /\ split_spans = <<>>
    /\ chunks = <<>>
    /\ IngestIdle /\ FooterIdle /\ RespIdle /\ AppIdle

\* chunks = split_documents(docs, chunk_size=..., chunk_overlap=...)
Split ==
    /\ split_pc = "call"
    /\ \E spans_of \in
           { f \in [1..Len(documents) ->
                    UNION { SplitterOutputs(documents[k].page_content,
                                            chunk_size) :
                            k \in 1..Len(documents) }] :
                 \A k \in 1..Len(documents) :
                     f[k] \in SplitterOutputs(documents[k].page_content,
                                              chunk_size) } :
           /\ split_spans' = spans_of
           /\ chunks' = split_documents(documents, spans_of, chunk_overlap)
    /\ split_pc' = "returned"
    /\ UNCHANGED <<documents, chunk_size, chunk_overlap, ingestVars,
                   footerVars, respVars, appVars>>

SplitNext == Split

SpecSplit == SplitInit /\ [][SplitNext]_vars

\* C10: every chunk has char_end - char_start = len(its text), and of two
\* chunks emitted one after the other for the same body the later starts at
\* or before the end of the earlier whenever chunk_overlap > 0.
C10_ChunkOffsets ==
    /\ \A j \in 1..Len(chunks) :
           chunks[j].metadata.char_end - chunks[j].metadata.char_start
           = Len(chunks[j].page_content)
    /\ \A j \in 1..(Len(chunks) - 1) :
           ( /\ chunk_overlap > 0
             /\ chunks[j].metadata.file_label
                = chunks[j + 1].metadata.file_label )
           => chunks[j + 1].metadata.char_start <= chunks[j].metadata.char_end

\* with an overlap, a body gave two chunks, the first of them from a span
\* that had to be trimmed
C10_Witness ==
    /\ split_pc = "returned" /\ chunk_overlap > 0
    /\ Len(chunks) >= 2
    /\ chunks[1].metadata.file_label = chunks[2].metadata.file_label
    /\ Len(split_spans[1][1]) > Len(chunks[1].page_content)
    /\ chunks[2].metadata.char_start < chunks[1].metadata.char_end

(***************************************************************************)
(* get_rag_response on any retrieved documents                             *)
(***************************************************************************)

\* a retrieved chunk of the file at position k
Retrieved(k, text) ==
    [page_content |-> text, metadata |-> Body(k, text).metadata]

\* chunks of two files whose texts agree after trimming, or after the cut
\* to SmallSnippet characters, or not at all; and a document without
\* metadata
RetrievedChoices ==
    { Retrieved(k, t) :
          k \in {1, 2},
          t \in { <<"a", "b", "c">>, <<" ", "a", "b", "c">>,
                  <<"a", "b", "d">> } }
    \cup { [page_content |-> <<"a", "b", "c">>, metadata |-> <<>>] }

ResponseManifest ==
    << [file_label |-> FileLabel(1), source_id |-> Body(1, <<>>).metadata.source_id,
        filename |-> Body(1, <<>>).metadata.source,
        path |-> Body(1, <<>>).metadata.path, ext |-> <<".", "t", "x", "t">>],
       [file_label |-> FileLabel(2), source_id |-> Body(2, <<>>).metadata.source_id,
        filename |-> Body(2, <<>>).metadata.source,
        path |-> Body(2, <<>>).metadata.path, ext |-> <<".", "t", "x", "t">>] >>

RespInit ==
    /\ src_docs \in SeqsUpTo(RetrievedChoices, MaxRetrieved)
    /\ resp_manifest = ResponseManifest
    /\ max_snippet_chars \in {0, SmallSnippet, DEFAULT_MAX_SNIPPET_CHARS}
    /\ resp_pc = "call"
    /\ response = [answer |-> <<>>]
    /\ IngestIdle /\ FooterIdle /\ SplitIdle /\ AppIdle

\* result = get_rag_response(query, chain, manifest, max_snippet_chars=...)
Respond ==
    /\ resp_pc = "call"
    /\ response' = get_rag_response(<<"A">>, src_docs, resp_manifest,
                                    max_snippet_chars)
    /\ resp_pc' = "returned"
    /\ UNCHANGED <<src_docs, resp_manifest, max_snippet_chars, ingestVars,
                   footerVars, splitVars, appVars>>

RespNext == Respond

SpecResp == RespInit /\ [][RespNext]_vars

\* the dedup key of a retrieved document: label, source name, and the text
\* trimmed and cut to max_snippet_chars
KeyOfDoc(d) == RefKey(RefOf(d, max_snippet_chars))

\* the first position of src_docs whose key is key
FirstWithKey(key) ==
    CHOOSE j \in 1..Len(src_docs) :
        /\ KeyOfDoc(src_docs[j]) = key
        /\ \A h \in 1..(j - 1) : KeyOfDoc(src_docs[h]) # key

\* C9: the references hold no two entries with the same (file_label,
\* source, snippet); they hold one entry for each distinct key among the
\* retrieved documents, in the order in which the keys first occur.
C9_ReferencesDeduplicated ==
    resp_pc = "returned"
    => LET refs == response.references
       IN  /\ \A a, b \in 1..Len(refs) :
                  a # b => RefKey(refs[a]) # RefKey(refs[b])
           /\ { RefKey(refs[a]) : a \in 1..Len(refs) }
              = { KeyOfDoc(src_docs[j]) : j \in 1..Len(src_docs) }
           /\ \A a, b \in 1..Len(refs) :
                  a < b => FirstWithKey(RefKey(refs[a]))
                           < FirstWithKey(RefKey(refs[b]))
           /\ \A a \in 1..Len(refs) :
                  refs[a] = RefOf(src_docs[FirstWithKey(RefKey(refs[a]))],
                                  max_snippet_chars)

\* two retrieved chunks whose texts differ only behind the cut collapsed
\* into one reference, with another reference after it
C9_Witness ==
    /\ resp_pc = "returned"
    /\ Len(src_docs) = 3
    /\ Len(response.references) = 2
    /\ src_docs[1].page_content # src_docs[2].page_content
    /\ Strip(src_docs[1].page_content, Whitespace)
       # Strip(src_docs[2].page_content, Whitespace)
    /\ KeyOfDoc(src_docs[1]) = KeyOfDoc(src_docs[2])
    /\ response.references[1].snippet = <<"a", "b", Ellipsis>>

(***************************************************************************)
(* The Streamlit session: build, clear and ask                             *)
(***************************************************************************)

\* the files a user may pick: a text that repeats itself, another file, a
\* blank file under the second name
UploadChoices ==
    { [name |-> <<"a", ".", "t", "x", "t">>, data |-> <<"x", "x">>],
      [name |-> <<"b", ".", "m", "d">>, data |-> <<"y">>],
      [name |-> <<"b", ".", "m", "d">>, data |-> <<" ">>] }

\* partition on a text or markdown file: it raises, or gives the file's
\* text as one element
PartitionOfText(content, raises) ==
    IF raises THEN [raises |-> TRUE]
    ELSE [raises |-> FALSE,
          elements |-> << [category |-> "NarrativeText", text |-> content] >>]

\* the splitter on a body of the session: the body whole, or cut in two
\* halves
SessionSplits(text) ==
    {<<text>>}
    \cup (IF Len(text) >= 2
          THEN { << SubSeq(text, 1, Len(text) \div 2),
                    SubSeq(text, (Len(text) \div 2) + 1, Len(text)) >> }
          ELSE {})

\* what the splitter may return for each merged document of a build
RECURSIVE SessionSpans(_)
SessionSpans(merged) ==
    IF merged = <<>> THEN {<<>>}
    ELSE { <<h>> \o t : h \in SessionSplits(Head(merged).page_content),
                        t \in SessionSpans(Tail(merged)) }

\* the lists of documents the retriever may return from a vector store:
\* up to k different chunks, in any order
Retrievals(vectorstore) ==
    LET n == Len(vectorstore)
        top == IF MaxAskDocs < RETRIEVER_K THEN MaxAskDocs ELSE RETRIEVER_K
    IN  { [j \in 1..Len(q) |-> vectorstore[q[j]]] :
          q \in { r \in SeqsUpTo(1..n, top) :
                      \A a, b \in 1..Len(r) : a # b => r[a] # r[b] } }

Init ==
    /\ rag_session = <<>>
    /\ uploaded_file_names = <<>>
    /\ chat_history_view = <<>>
    /\ session_manifest = <<>>
    /\ index_dir = <<>>
    /\ notice = "start"
    /\ last_ask = <<>>
    /\ IngestIdle /\ FooterIdle /\ SplitIdle /\ RespIdle

\* BuildOutcome with an except branch that resets rag_session only
BuildOutcomeKeepManifest(r, names) ==
    /\ index_dir' = IF r.written THEN r.saved ELSE index_dir
    /\ IF r.exc = "none"
       THEN /\ rag_session' = << [llm |-> r.llm,
                                  vectorstore |-> r.vectorstore,
                                  retriever |-> r.retriever,
                                  memory |-> r.memory,
                                  chain |-> r.chain] >>
            /\ uploaded_file_names' = names
            /\ chat_history_view' = <<>>
            /\ session_manifest' = r.manifest
            /\ notice' = "build_ok"
       ELSE /\ rag_session' = <<>>
            /\ notice' = "build_failed"
            /\ UNCHANGED <<uploaded_file_names, chat_history_view,
                           session_manifest>>

\* the session state after the try block of the build handler, given the
\* result r of create_rag_pipeline
BuildOutcome(r, names) ==
    /\ index_dir' = IF r.written THEN r.saved ELSE index_dir
    /\ IF r.exc = "none"
       THEN /\ rag_session' = << [llm |-> r.llm,
                                  vectorstore |-> r.vectorstore,
                                  retriever |-> r.retriever,
                                  memory |-> r.memory,
                                  chain |-> r.chain] >>
            /\ uploaded_file_names' = names
            /\ chat_history_view' = <<>>
            /\ session_manifest' = r.manifest
            /\ notice' = "build_ok"
       ELSE /\ rag_session' = <<>>
            /\ session_manifest' = <<>>
            /\ notice' = "build_failed"
            /\ UNCHANGED <<uploaded_file_names, chat_history_view>>

\* where a build may fail: nowhere, in partition on the k-th file, in the
\* embedding model, or in the construction of the chat model
FailurePoints(n) ==
    { [stage |-> st, at |-> 0] : st \in {"none", "embedding", "llm"} }
    \cup { [stage |-> "partition", at |-> k] : k \in 1..n }

\* what create_rag_pipeline may do for the uploads u, written to data/ in
\* order: one result for each failure point and each output of the splitter
PipelineRuns(u) ==
    LET n == Len(u)
        file_paths == [k \in 1..n |-> DataPath(u[k].name)]
    IN  UNION {
          LET outcomes ==
                  [k \in 1..n |->
                      PartitionOfText(DiskContent(u, u[k].name),
                                      fails.at = k)]
          IN  { create_rag_pipeline(file_paths, model_key, outcomes, spans_of,
                                    fails.stage # "embedding",
                                    fails.stage # "llm") :
                spans_of \in SessionSpans(PipelineDocs(file_paths, outcomes)) }
          : fails \in FailurePoints(n), model_key \in ModelChoices }

\* one upload more than the handler accepts
OverCap == [k \in 1..(UPLOAD_CAP + 1) |-> CHOOSE f \in UploadChoices : TRUE]

\* if build_clicked: ...
Build ==
    /\ \E uploaded_files \in SeqsUpTo(UploadChoices, MaxUpload) \cup {OverCap} :
           IF uploaded_files = <<>>
           THEN /\ notice' = "no_files"
                /\ UNCHANGED <<rag_session, uploaded_file_names,
                               chat_history_view, session_manifest, index_dir>>
           ELSE IF Len(uploaded_files) > UPLOAD_CAP
           THEN /\ notice' = "too_many_files"
                /\ UNCHANGED <<rag_session, uploaded_file_names,
                               chat_history_view, session_manifest, index_dir>>
           ELSE \E result \in PipelineRuns(uploaded_files) :
                    BuildOutcome(result,
                                 [k \in 1..Len(uploaded_files) |->
                                     uploaded_files[k].name])
    /\ last_ask' = <<>>
    /\ UNCHANGED <<ingestVars, footerVars, splitVars, respVars>>

\* the clear handler, were it to reset the manifest with the history
ClearWithManifest ==
    /\ chat_history_view' = <<>>
    /\ session_manifest' = <<>>
    /\ rag_session' =
           IF rag_session # <<>> /\ "memory" \in DOMAIN rag_session[1]
           THEN << [rag_session[1] EXCEPT !.memory = <<>>] >>
           ELSE rag_session
    /\ notice' = "cleared"
    /\ last_ask' = <<>>
    /\ UNCHANGED <<uploaded_file_names, index_dir,
                   ingestVars, footerVars, splitVars, respVars>>

\* if clear_clicked: ...
Clear ==
    /\ chat_history_view' = <<>>
    /\ rag_session' =
           IF rag_session # <<>> /\ "memory" \in DOMAIN rag_session[1]
           THEN << [rag_session[1] EXCEPT !.memory = <<>>] >>
           ELSE rag_session
    /\ notice' = "cleared"
    /\ last_ask' = <<>>
    /\ UNCHANGED <<uploaded_file_names, session_manifest, index_dir,
                   ingestVars, footerVars, splitVars, respVars>>

\* if submitted and query: ... The form is disabled while rag_session is
\* None. The chain raises (chain_ok false) or returns an answer and the
\* retrieved documents, and saves the turn in its memory.
Ask ==
    /\ rag_session # <<>>
    /\ Len(chat_history_view) < MaxTurns
    /\ \E chain_ok \in BOOLEAN,
          retrieved \in Retrievals(rag_session[1].vectorstore) :
           IF ~chain_ok
           THEN /\ notice' = "ask_failed"
                /\ last_ask' = <<>>
                /\ UNCHANGED <<rag_session, chat_history_view>>
           ELSE LET query == <<"q">>
                    answer == <<"A">>
                    result == get_rag_response(answer, retrieved,
                                  session_manifest, DEFAULT_MAX_SNIPPET_CHARS)
                IN  /\ rag_session' =
                           << [rag_session[1] EXCEPT
                                  !.memory = Append(@, [question |-> query,
                                                        answer |-> answer])] >>
                    /\ chat_history_view' =
                           Append(chat_history_view,
                                  [q |-> query, a |-> result.answer,
                                   refs |-> result.references])
                    /\ last_ask' = << [src_docs |-> retrieved,
                                       result |-> result] >>
                    /\ notice' = "answered"
    /\ UNCHANGED <<uploaded_file_names, session_manifest, index_dir,
                   ingestVars, footerVars, splitVars, respVars>>

Next == Build \/ Clear \/ Ask

Spec == Init /\ [][Next]_vars

\* the chunks emitted for the document at position k, in emission order
ChunksOfDocument(k) ==
    SelectSeq(chunks,
              LAMBDA c : c.metadata.file_label
                         = documents[k].metadata.file_label)

\* C11: the chunk_index values of the chunks emitted for one body are
\* 0, 1, ..., n-1 in emission order: a span that is empty after trimming
\* is dropped without taking an index.
C11_ChunkIndexCountsEmitted ==
    split_pc = "returned"
    => \A k \in 1..Len(documents) :
           \A j \in 1..Len(ChunksOfDocument(k)) :
               ChunksOfDocument(k)[j].metadata.chunk_index = j - 1

(***************************************************************************)
(* get_rag_response on the chunks and the manifest of one build            *)
(***************************************************************************)

\* the builds that succeed: create_rag_pipeline's results for the uploads
\* the handler accepts
GoodBuilds ==
    UNION { { r \in PipelineRuns(u) : r.exc = "none" } :
            u \in { v \in SeqsUpTo(UploadChoices, MaxUpload) :
                        v # <<>> /\ Len(v) <= UPLOAD_CAP } }

BuiltRespInit ==
    /\ \E r \in GoodBuilds :
           /\ src_docs \in Retrievals(r.vectorstore)
           /\ resp_manifest = r.manifest
    /\ max_snippet_chars = DEFAULT_MAX_SNIPPET_CHARS
    /\ resp_pc = "call"
    /\ response = [answer |-> <<>>]
    /\ IngestIdle /\ FooterIdle /\ SplitIdle /\ AppIdle

SpecBuiltResp == BuiltRespInit /\ [][RespNext]_vars

(***************************************************************************)
(* The pipeline of create_rag_pipeline: load, merge, split                 *)
(***************************************************************************)

PipelineInit ==
    /\ paths \in SeqsUpTo(PathChoices, MaxPaths)
    /\ limit = DEFAULT_LIMIT
    /\ ingest_pc = "load"
    /\ partitioned = <<>>
    /\ loaded = [exc |-> "pending"]
    /\ docs = <<>>
    /\ documents = <<>>
    /\ \E cp \in ChunkParams : chunk_size = cp[1] /\ chunk_overlap = cp[2]
    /\ split_pc = "idle"
    /\ split_spans = <<>>
    /\ chunks = <<>>
    /\ FooterIdle /\ RespIdle /\ AppIdle

\* chunks = split_documents(docs, chunk_size=..., chunk_overlap=...) on the
\* merged documents
SplitMerged ==
    /\ ingest_pc = "merged"
    /\ split_pc = "idle"
    /\ documents' = docs
    /\ \E spans_of \in SessionSpans(docs) :
           /\ split_spans' = spans_of
           /\ chunks' = split_documents(docs, spans_of, chunk_overlap)
    /\ split_pc' = "returned"
    /\ UNCHANGED <<chunk_size, chunk_overlap, ingestVars, footerVars,
                   respVars, appVars>>

PipelineNext == Load \/ Merge \/ SplitMerged

SpecPipeline == PipelineInit /\ [][PipelineNext]_vars

\* the five provenance values of a document or chunk, and of a manifest
\* entry
ProvenanceOf(d) ==
    <<d.metadata.source_id, d.metadata.file_label, d.metadata.source,
      d.metadata.path, d.metadata.ext>>

ProvenanceOfEntry(m) == <<m.source_id, m.file_label, m.filename, m.path, m.ext>>

\* the documents _parse_one_file made of the file at input position k
DocsParsedAt(k) == parse_one_file(paths[k], FileLabel(k), partitioned[k]).docs

\* the texts of a sequence of documents
TextsOf(ds) == [j \in 1..Len(ds) |-> ds[j].page_content]

\* the positions of the merged documents that carry the provenance of
\* manifest entry k
BodiesOfEntry(k) ==
    { j \in 1..Len(docs) :
          ProvenanceOf(docs[j]) = ProvenanceOfEntry(loaded.manifest[k]) }

\* C12: once the pipeline has split the merged documents of a loaded batch,
\* the documents of every input position carry the five values of that
\* position's manifest entry; every merged body carries the five values of
\* exactly one manifest entry and is made of the texts of that position's
\* documents; there is at most one merged body for each input position;
\* and every chunk carries the five values of exactly one manifest entry,
\* those of the merged body one of whose spans it is.
C12_ProvenancePreserved ==
    split_pc = "returned"
    => LET mf == loaded.manifest
       IN  /\ \A k \in 1..Len(paths) :
                  \A j \in 1..Len(DocsParsedAt(k)) :
                      ProvenanceOf(DocsParsedAt(k)[j])
                      = ProvenanceOfEntry(mf[k])
           /\ \A j \in 1..Len(docs) :
                  /\ Cardinality({ k \in 1..Len(mf) : j \in BodiesOfEntry(k) })
                     = 1
                  /\ \A k \in 1..Len(mf) :
                         j \in BodiesOfEntry(k)
                         => docs[j].page_content
                            = Join(TextsOf(DocsParsedAt(k)), <<"\n">>)
           /\ \A k \in 1..Len(mf) : Cardinality(BodiesOfEntry(k)) <= 1
           /\ \A c \in 1..Len(chunks) :
                  /\ Cardinality({ k \in 1..Len(mf) :
                                       ProvenanceOf(chunks[c])
                                       = ProvenanceOfEntry(mf[k]) }) = 1
                  /\ \E j \in 1..Len(docs) :
                         /\ ProvenanceOf(docs[j]) = ProvenanceOf(chunks[c])
                         /\ \E i \in 1..Len(split_spans[j]) :
                                chunks[c].page_content
                                = normalize_text(split_spans[j][i])

\* a batch that names one file twice, by two spellings of its path, and a
\* third file: each position has its own merged body, one of them cut into
\* two chunks
C12_Witness ==
    /\ split_pc = "returned"
    /\ Len(paths) = 3
    /\ \E a, b \in 1..Len(paths) :
           /\ a # b
           /\ loaded.manifest[a].source_id = loaded.manifest[b].source_id
           /\ BodiesOfEntry(a) # {} /\ BodiesOfEntry(b) # {}
    /\ \E j \in 1..Len(docs) :
           Cardinality({ c \in 1..Len(chunks) :
                             ProvenanceOf(chunks[c]) = ProvenanceOf(docs[j]) })
           = 2

(***************************************************************************)
(* Claims about the session                                                *)
(***************************************************************************)

\* C1: a build that fails while a session built earlier is working leaves
\* the session objects (chain, chunks), the session's manifest and the
\* saved index exactly as they were, so that a question can still be asked.
C1_FailedBuildKeepsSession ==
    [][(rag_session # <<>> /\ notice' = "build_failed")
       => /\ rag_session' = rag_session
          /\ session_manifest' = session_manifest
          /\ index_dir' = index_dir]_vars

\* the source_ids of the manifest entries whose line stands in the footer
FooterSourceIds(footer, mf) ==
    { mf[k].source_id :
      k \in { j \in 1..Len(mf) :
                  FooterLine(mf[j]) \in SeqToSet(EntryLines(footer)) } }

ReferenceSourceIds(references) ==
    { references[k].source_id : k \in 1..Len(references) }

\* C5: when get_rag_response is called with chunks and the manifest of one
\* build and some reference carries a source_id, every entry line of the
\* footer is the line of a manifest entry, and the source_ids of the
\* manifest entries in the footer are exactly the source_ids of the
\* returned references.
C5_FooterMatchesReferences ==
    (resp_pc = "returned"
     /\ ReferenceSourceIds(response.references) \ {<<>>} # {})
    => /\ FooterSourceIds(response.footer, resp_manifest)
          = ReferenceSourceIds(response.references)
       /\ \A k \in 1..Len(EntryLines(response.footer)) :
              \E j \in 1..Len(resp_manifest) :
                  EntryLines(response.footer)[k] = FooterLine(resp_manifest[j])

\* a response made of two retrieved chunks, for a build of two different
\* files of which the footer lists one
C5_Witness ==
    /\ resp_pc = "returned"
    /\ Len(src_docs) = 2
    /\ Len(resp_manifest) = 2
    /\ resp_manifest[1].source_id # resp_manifest[2].source_id
    /\ Len(EntryLines(response.footer)) = 1
    /\ ReferenceSourceIds(response.references) = {resp_manifest[1].source_id}

\* the files the retrieved chunks come from
RetrievedFiles(docs_) ==
    { docs_[k].metadata.path : k \in 1..Len(docs_) }

\* C6: the footer of an answered question has one entry line for each
\* different file among the retrieved chunks.
C6_OneLinePerRetrievedFile ==
    last_ask # <<>> =>
        Len(EntryLines(last_ask[1].result.footer))
        = Cardinality(RetrievedFiles(last_ask[1].src_docs))

\* C13: the clear handler can run in every reachable state of the session,
\* and a rerun that clears leaves the chat history view empty and the
\* memory of the chain empty, and leaves the manifest, the saved index and,
\* when there is a session, its chat model, vector store, retriever and
\* chain as they were; without a session there is still none.
C13_ClearKeepsKnowledgeBase ==
    /\ [](ENABLED Clear)
    /\ [][notice' = "cleared"
          => /\ chat_history_view' = <<>>
             /\ session_manifest' = session_manifest
             /\ index_dir' = index_dir
             /\ uploaded_file_names' = uploaded_file_names
             /\ (rag_session = <<>>) = (rag_session' = <<>>)
             /\ rag_session # <<>>
                => /\ rag_session'[1].memory = <<>>
                   /\ rag_session'[1].llm = rag_session[1].llm
                   /\ rag_session'[1].vectorstore = rag_session[1].vectorstore
                   /\ rag_session'[1].retriever = rag_session[1].retriever
                   /\ rag_session'[1].chain = rag_session[1].chain]_vars

\* the conversation of a built session has just been cleared
C13_Witness ==
    /\ notice = "cleared"
    /\ rag_session # <<>>
    /\ rag_session[1].memory = <<>>
    /\ rag_session[1].vectorstore # <<>>
    /\ session_manifest # <<>>
    /\ chat_history_view = <<>>

\* the session objects and the manifest are those one successful call r of
\* create_rag_pipeline returned (the memory aside, which the chain fills)
SessionFrom(r) ==
    /\ rag_session # <<>>
    /\ rag_session[1].llm = r.llm
    /\ rag_session[1].vectorstore = r.vectorstore
    /\ rag_session[1].retriever = r.retriever
    /\ rag_session[1].chain = r.chain
    /\ session_manifest = r.manifest

\* C14: in every state of the session, either rag_session and the manifest
\* are what one successful create_rag_pipeline call returned, or there is
\* no session and the manifest is empty; an answered question was answered
\* from the chunks of that call with the manifest of that call; and no
\* question can be asked while rag_session is None.
C14_ManifestMatchesChain ==
    /\ IF rag_session = <<>>
       THEN session_manifest = <<>> /\ last_ask = <<>> /\ ~ENABLED Ask
       ELSE \E r \in GoodBuilds :
                /\ SessionFrom(r)
                /\ last_ask # <<>>
                   => /\ \A j \in 1..Len(last_ask[1].src_docs) :
                             \E c \in 1..Len(r.vectorstore) :
                                 last_ask[1].src_docs[j] = r.vectorstore[c]
                      /\ LET made == get_rag_response(
                                         <<"A">>, last_ask[1].src_docs,
                                         r.manifest, DEFAULT_MAX_SNIPPET_CHARS)
                         IN  /\ last_ask[1].result.references = made.references
                             /\ last_ask[1].result.footer = made.footer

\* a question answered from two chunks in a session built of two uploads
C14_Witness ==
    /\ notice = "answered"
    /\ last_ask # <<>>
    /\ Len(last_ask[1].src_docs) = 2
    /\ Len(session_manifest) = 2
    /\ Len(chat_history_view) = 1

====
